---- MODULE Spec2Model ----
(***************************************************************************)
(* Column-level SQL lineage (src/main.py): the Lineage extractor           *)
(* (parse_sql, _analyze_select), the exporter (generate_interactive_html)  *)
(* and the impact traversal of the generated page (showLineage).           *)
(*                                                                         *)
(* Strings are sequences of one-character strings, so that str.lower(),    *)
(* ".".join(...) and str.replace(...) are computed character by character.  *)
(* The syntax tree of a statement is what sqlglot.parse_one hands to the    *)
(* extractor: records carrying exactly the attributes the code reads.      *)
(***************************************************************************)
EXTENDS Integers, Sequences, FiniteSets, TLC

\* Number of parse_sql calls of one run (the files of the batch loop).
MaxCalls == 2

\* Number of files of a batch whose text fails to parse.
MaxFailures == 1

-----------------------------------------------------------------------------
(* Strings *)

Empty == <<>>

Dot == "."
Space == " "
Underscore == "_"

\* str.lower() on one character (the upper-case letters that occur in names).
LowerChar(ch) ==
    CASE ch = "A" -> "a" [] ch = "B" -> "b" [] ch = "C" -> "c" [] ch = "E" -> "e"
      [] ch = "F" -> "f" [] ch = "G" -> "g" [] ch = "H" -> "h" [] ch = "I" -> "i"
      [] ch = "L" -> "l" [] ch = "M" -> "m" [] ch = "N" -> "n" [] ch = "O" -> "o"
      [] ch = "P" -> "p" [] ch = "S" -> "s" [] ch = "T" -> "t" [] ch = "U" -> "u"
      [] OTHER -> ch

\* str.lower()
RECURSIVE Lower(_)
Lower(s) == IF s = <<>> THEN <<>> ELSE <<LowerChar(Head(s))>> \o Lower(Tail(s))

\* str.replace(old, new) for a one-character old and new.
RECURSIVE ReplaceChar(_, _, _)
ReplaceChar(s, old, new) ==
    IF s = <<>> THEN <<>>
    ELSE <<IF Head(s) = old THEN new ELSE Head(s)>> \o ReplaceChar(Tail(s), old, new)

\* sep.join(parts)
RECURSIVE Join(_, _)
Join(sep, parts) ==
    IF parts = <<>> THEN <<>>
    ELSE IF Len(parts) = 1 THEN parts[1]
    ELSE parts[1] \o <<sep>> \o Join(sep, Tail(parts))

\* [p for p in parts if p]
RECURSIVE Truthy(_)
Truthy(parts) ==
    IF parts = <<>> THEN <<>>
    ELSE IF parts[1] = Empty THEN Truthy(Tail(parts))
    ELSE <<parts[1]>> \o Truthy(Tail(parts))

\* String literals of the source.
UnknownStr == <<"U", "n", "k", "n", "o", "w", "n">>
UnknownTableStr == <<"u", "n", "k", "n", "o", "w", "n", "_", "t", "a", "b", "l", "e">>
UnknownTargetStr == <<"U", "n", "k", "n", "o", "w", "n", "_", "T", "a", "r", "g", "e", "t">>
CalcFieldStr == <<"c", "a", "l", "c", "_", "f", "i", "e", "l", "d">>
FinalOutputStr == <<"F", "I", "N", "A", "L", "_", "O", "U", "T", "P", "U", "T">>
CteStr == <<"C", "T", "E">>

-----------------------------------------------------------------------------
(* Syntax tree nodes, with the attributes the extractor reads *)

NoNode == [node |-> "None"]

\* exp.Table: .catalog, .db, .name, .alias ("" when absent)
Table(catalog, db, name, alias) ==
    [node |-> "Table", catalog |-> catalog, db |-> db, name |-> name, alias |-> alias]

\* exp.Column: .table ("" when unqualified), .name
Column(table, name) == [node |-> "Column", table |-> table, name |-> name]

\* exp.Literal (any operand that is not an exp.Column)
Literal == [node |-> "Literal"]

\* A projection that is a bare exp.Column: no alias, .name is the column name.
ColumnExpr(col) ==
    [node |-> "Column", alias |-> Empty, name |-> col.name, columns |-> <<col>>]

\* exp.Alias over any expression; columns are its nested exp.Column nodes.
AliasExpr(alias, cols) ==
    [node |-> "Alias", alias |-> alias, name |-> Empty, columns |-> cols]

\* An un-aliased computed expression; columns are its nested exp.Column nodes.
CalcExpr(cols) ==
    [node |-> "Binary", alias |-> Empty, name |-> Empty, columns |-> cols]

\* exp.EQ: .left, .right
EQ(left, right) == [node |-> "EQ", left |-> left, right |-> right]

\* The ON condition of a join: its exp.EQ nodes and its other predicates.
On(eqs, others) == [node |-> "On", eqs |-> eqs, others |-> others]

\* exp.Join: its table and args["on"] (NoNode when absent)
JoinNode(table, on) == [node |-> "Join", this |-> table, on |-> on]

\* exp.CTE: .alias, .this (the body)
CTE(alias, body) == [node |-> "CTE", alias |-> alias, this |-> body]

\* exp.Select: FROM table(s), projections, joins and the attached WITH clause.
Select(from, expressions, joins, with) ==
    [node |-> "Select", from |-> from, expressions |-> expressions,
     joins |-> joins, with |-> with]

\* exp.Insert / exp.Create: .this (target), .expression (select), WITH on the statement.
Insert(target, with, select) ==
    [node |-> "Insert", this |-> target, expression |-> select, with |-> with]

Create(target, select) ==
    [node |-> "Create", this |-> target, expression |-> select, with |-> <<>>]

\* Any other statement kind (no select part is taken from it).
OtherStatement == [node |-> "Drop", with |-> <<>>]

\* sqlglot.parse_one raised.
ParseError == [node |-> "ParseError"]

\* The exp.Table node of each join of a list.
RECURSIVE JoinTables(_)
JoinTables(joins) ==
    IF joins = <<>> THEN <<>> ELSE <<joins[1].this>> \o JoinTables(Tail(joins))

\* The exp.Table nodes inside the bodies of a list of CTEs.
RECURSIVE CteTables(_)
CteTables(ctes) ==
    IF ctes = <<>> THEN <<>>
    ELSE ctes[1].this.from \o JoinTables(ctes[1].this.joins) \o CteTables(Tail(ctes))

\* The exp.Join nodes inside the bodies of a list of CTEs.
RECURSIVE CteJoins(_)
CteJoins(ctes) ==
    IF ctes = <<>> THEN <<>> ELSE ctes[1].this.joins \o CteJoins(Tail(ctes))

\* select_expression.find_all(exp.Table): breadth first over the whole subtree,
\* the attached WITH clause included (FROM, then the joins, then deeper nodes).
FindAllTable(sel) == sel.from \o JoinTables(sel.joins) \o CteTables(sel.with)

\* select_expression.find_all(exp.Join): the joins of the whole subtree.
FindAllJoin(sel) == sel.joins \o CteJoins(sel.with)

\* parsed.find_all(exp.CTE): every CTE of the statement.
FindAllCTE(parsed) ==
    IF parsed.node = "Select" THEN parsed.with
    ELSE IF parsed.node \in {"Insert", "Create"} THEN parsed.with \o parsed.expression.with
    ELSE <<>>

\* on_clause.find_all(exp.EQ)
FindAllEQ(on) == on.eqs

-----------------------------------------------------------------------------
(* Lineage: helpers *)

\* Lineage._get_full_table_name
GetFullTableName(table_exp) ==
    IF table_exp = NoNode THEN UnknownStr
    ELSE LET parts == <<table_exp.catalog, table_exp.db, table_exp.name>>
             full_name == Join(Dot, Truthy(parts))
         IN  IF full_name # Empty THEN Lower(full_name) ELSE UnknownTableStr

\* Lineage._get_col_name
GetColName(expression) ==
    IF expression.alias # Empty THEN expression.alias
    ELSE IF expression.node = "Column" THEN expression.name
    ELSE CalcFieldStr

\* Lineage._clean_id
CleanId(name) ==
    IF name = Empty THEN UnknownStr
    ELSE ReplaceChar(ReplaceChar(name, Dot, Underscore), Space, Underscore)

-----------------------------------------------------------------------------
(* dict and defaultdict(set), in insertion order *)

\* key in d
HasKey(d, k) == \E i \in DOMAIN d : d[i].key = k

KeySet(d) == {d[i].key : i \in DOMAIN d}

\* d.get(k, default)
Get(d, k, default) ==
    IF HasKey(d, k) THEN d[CHOOSE i \in DOMAIN d : d[i].key = k].val ELSE default

\* d[k] = v: an existing key keeps its position.
RECURSIVE Put(_, _, _)
Put(d, k, v) ==
    IF d = <<>> THEN <<[key |-> k, val |-> v]>>
    ELSE IF d[1].key = k THEN <<[key |-> k, val |-> v]>> \o Tail(d)
    ELSE <<d[1]>> \o Put(Tail(d), k, v)

\* if k not in self.tables: self.tables[k] = set()
Register(tables, k) == IF HasKey(tables, k) THEN tables ELSE Put(tables, k, {})

\* A column addition that leaves the column set of k as it was.
AddColumnDropped(tables, k, c) == tables

\* self.tables[k].add(c), after k was registered
AddColumn(tables, k, c) == Put(tables, k, Get(tables, k, {}) \cup {c})

\* The column set of a table ({} when the table is absent).
ColumnsOf(tables, k) == Get(tables, k, {})

\* Lineage.__init__
NewLineage ==
    [tables |-> <<>>, flow_edges |-> <<>>, join_edges |-> <<>>,
     defined_tables |-> {}, ctes |-> {}]

-----------------------------------------------------------------------------
(* Lineage._analyze_select *)

\* 1. Map Aliases: st is [alias_map, tables].
RECURSIVE MapAliases(_, _)
MapAliases(tabs, st) ==
    IF tabs = <<>> THEN st
    ELSE LET table == tabs[1]
             full_name == GetFullTableName(table)
             alias == IF table.alias # Empty THEN table.alias ELSE table.name
         IN  MapAliases(Tail(tabs),
                        [alias_map |-> Put(st.alias_map, alias, full_name),
                         tables |-> Register(st.tables, full_name)])

\* The table a column reference resolves to (Empty when it resolves to none).
ResolveSource(alias_map, ref) ==
    LET src_tbl_alias ==
            IF ref.table = Empty /\ alias_map # <<>> THEN alias_map[1].key ELSE ref.table
    IN  Get(alias_map, src_tbl_alias, src_tbl_alias)

\* A loop over the column references that stops after the first of them.
FlowRefsFirstOnly(refs, L, alias_map, target, target_col) ==
    IF refs = <<>> THEN L
    ELSE LET real_source_full == ResolveSource(alias_map, refs[1])
         IN  IF real_source_full # Empty
             THEN [L EXCEPT
                     !.tables = AddColumn(Register(@, real_source_full),
                                          real_source_full, refs[1].name),
                     !.flow_edges = Append(@, <<real_source_full, refs[1].name,
                                                target, target_col>>)]
             ELSE L

\* for ref in expression.find_all(exp.Column)
RECURSIVE FlowRefs(_, _, _, _, _)
FlowRefs(refs, L, alias_map, target, target_col) ==
    IF refs = <<>> THEN L
    ELSE LET ref == refs[1]
             src_col == ref.name
             real_source_full == ResolveSource(alias_map, ref)
             L1 == IF real_source_full # Empty
                   THEN [L EXCEPT
                           !.tables = AddColumn(Register(@, real_source_full),
                                                real_source_full, src_col),
                           !.flow_edges = Append(@, <<real_source_full, src_col,
                                                      target, target_col>>)]
                   ELSE L
         IN  FlowRefs(Tail(refs), L1, alias_map, target, target_col)

\* 2. Map Data Flow
RECURSIVE MapDataFlow(_, _, _, _)
MapDataFlow(expressions, L, alias_map, target) ==
    IF expressions = <<>> THEN L
    ELSE LET expression == expressions[1]
             target_col == GetColName(expression)
             L1 == [L EXCEPT !.tables = AddColumn(Register(@, target), target, target_col)]
         IN  MapDataFlow(Tail(expressions),
                         FlowRefs(expression.columns, L1, alias_map, target, target_col),
                         alias_map, target)

\* Python's None as a value returned where a string is expected.
None == <<"None">>

\* extract_full_ref: <<full_name, c_name>>, or <<None, None>> for a non-column.
ExtractFullRef(alias_map, node) ==
    IF node.node = "Column"
    THEN <<ResolveSource(alias_map, node), node.name>>
    ELSE <<None, None>>

\* for eq in on_clause.find_all(exp.EQ)
RECURSIVE MapEqs(_, _, _)
MapEqs(eqs, L, alias_map) ==
    IF eqs = <<>> THEN L
    ELSE LET l == ExtractFullRef(alias_map, eqs[1].left)
             r == ExtractFullRef(alias_map, eqs[1].right)
             truthy(t) == t # None /\ t # Empty
             L1 == IF truthy(l[1]) /\ truthy(r[1])
                   THEN [L EXCEPT
                           !.tables = AddColumn(Register(
                                          AddColumn(Register(@, l[1]), l[1], l[2]),
                                          r[1]), r[1], r[2]),
                           !.join_edges = Append(@, <<l[1], l[2], r[1], r[2]>>)]
                   ELSE L
         IN  MapEqs(Tail(eqs), L1, alias_map)

\* 3. Map Joins
RECURSIVE MapJoins(_, _, _)
MapJoins(joins, L, alias_map) ==
    IF joins = <<>> THEN L
    ELSE LET on_clause == joins[1].on
             L1 == IF on_clause # NoNode
                   THEN MapEqs(FindAllEQ(on_clause), L, alias_map)
                   ELSE L
         IN  MapJoins(Tail(joins), L1, alias_map)

\* The alias map _analyze_select builds for a select.
AliasMapOf(select_expression) ==
    MapAliases(FindAllTable(select_expression),
               [alias_map |-> <<>>, tables |-> <<>>]).alias_map

AnalyzeSelect(L, select_expression, target_table_full_name) ==
    LET target == IF target_table_full_name = Empty THEN UnknownTargetStr
                  ELSE target_table_full_name
        st == MapAliases(FindAllTable(select_expression),
                         [alias_map |-> <<>>, tables |-> L.tables])
        L1 == [L EXCEPT !.tables = st.tables]
        L2 == MapDataFlow(select_expression.expressions, L1, st.alias_map, target)
    IN  MapJoins(FindAllJoin(select_expression), L2, st.alias_map)

-----------------------------------------------------------------------------
(* Lineage.parse_sql *)

\* A registration of the declared output name that keeps its letter case.
RegisterOutputAsWritten(L, output_table_name) ==
    IF output_table_name # Empty
    THEN [L EXCEPT !.defined_tables = @ \cup {output_table_name},
                   !.tables = Register(@, output_table_name)]
    ELSE L

\* if output_table_name: ... (before the try block)
RegisterOutput(L, output_table_name) ==
    IF output_table_name # Empty
    THEN [L EXCEPT !.defined_tables = @ \cup {Lower(output_table_name)},
                   !.tables = Register(@, Lower(output_table_name))]
    ELSE L

\* for cte in parsed.find_all(exp.CTE)
RECURSIVE AnalyzeCtes(_, _)
AnalyzeCtes(ctes, L) ==
    IF ctes = <<>> THEN L
    ELSE LET cte == ctes[1]
             cte_name == IF cte.alias # Empty THEN cte.alias ELSE CteStr
             L1 == [L EXCEPT !.ctes = @ \cup {cte_name}]
         IN  AnalyzeCtes(Tail(ctes), AnalyzeSelect(L1, cte.this, cte_name))

\* if parsed.find(exp.With): ...
CtePass(L, parsed) == AnalyzeCtes(FindAllCTE(parsed), L)


\* A target resolution in which the table named by INSERT/CREATE wins over the
\* declared output name.
TargetFullNameNamedFirst(parsed, output_table_name) ==
    IF parsed.node \in {"Insert", "Create"} THEN GetFullTableName(parsed.this)
    ELSE IF output_table_name # Empty THEN Lower(output_table_name)
    ELSE FinalOutputStr

\* target_full_name of the statement's select part
TargetFullName(parsed, output_table_name) ==
    IF output_table_name # Empty THEN Lower(output_table_name)
    ELSE IF parsed.node \in {"Insert", "Create"} THEN GetFullTableName(parsed.this)
    ELSE FinalOutputStr

\* select_part (NoNode for Python's None)
SelectPart(parsed) ==
    IF parsed.node \in {"Insert", "Create"} THEN parsed.expression
    ELSE IF parsed.node = "Select" THEN parsed
    ELSE NoNode

\* if select_part: self._analyze_select(select_part, target_full_name)
MainPass(L, parsed, output_table_name) ==
    IF SelectPart(parsed) # NoNode
    THEN AnalyzeSelect(L, SelectPart(parsed), TargetFullName(parsed, output_table_name))
    ELSE L


\* A try block whose failure discards the edges collected so far.
TryBlockDiscarding(L, parsed, output_table_name) ==
    IF parsed = ParseError THEN [L EXCEPT !.flow_edges = <<>>, !.join_edges = <<>>]
    ELSE MainPass(CtePass(L, parsed), parsed, output_table_name)

\* The body of the try block; a ParseError leaves through the except clause.
TryBlock(L, parsed, output_table_name) ==
    IF parsed = ParseError THEN L
    ELSE MainPass(CtePass(L, parsed), parsed, output_table_name)

ParseSqlResult(L, parsed, output_table_name) ==
    TryBlock(RegisterOutput(L, output_table_name), parsed, output_table_name)

-----------------------------------------------------------------------------
(* Inputs of the batch: parse results of SQL texts, and declared output names *)

tbl_t == <<"t">>
tbl_u == <<"u">>
cte_c == <<"c">>
al_p == <<"p">>
al_q == <<"q">>
col_a == <<"a">>
col_k == <<"k">>
col_y == <<"y">>
col_n == <<"n">>

\* SELECT p.a AS y FROM t p
SelAlias ==
    Select(<<Table(Empty, Empty, tbl_t, al_p)>>, <<AliasExpr(col_y, <<Column(al_p, col_a)>>)>>, <<>>, <<>>)

\* SELECT a FROM C.S.T
SelBare ==
    Select(<<Table(<<"C">>, <<"S">>, <<"T">>, Empty)>>, <<ColumnExpr(Column(Empty, col_a))>>,
           <<>>, <<>>)

\* SELECT p.a + q.k FROM t p JOIN u q ON p.k = q.k AND p.a > 1
SelCalc ==
    Select(<<Table(Empty, Empty, tbl_t, al_p)>>,
           <<CalcExpr(<<Column(al_p, col_a), Column(al_q, col_k)>>)>>,
           <<JoinNode(Table(Empty, Empty, tbl_u, al_q),
                      On(<<EQ(Column(al_p, col_k), Column(al_q, col_k))>>, 1))>>,
           <<>>)

\* SELECT 1 AS n
SelLiteral == Select(<<>>, <<AliasExpr(col_n, <<>>)>>, <<>>, <<>>)

\* SELECT a
SelNoFrom == Select(<<>>, <<ColumnExpr(Column(Empty, col_a))>>, <<>>, <<>>)

\* SELECT T.a FROM t
SelCase ==
    Select(<<Table(Empty, Empty, tbl_t, Empty)>>, <<ColumnExpr(Column(<<"T">>, col_a))>>,
           <<>>, <<>>)

\* SELECT p.a FROM t p JOIN u q ON p.k = 1
SelJoinLiteral ==
    Select(<<Table(Empty, Empty, tbl_t, al_p)>>, <<ColumnExpr(Column(al_p, col_a))>>,
           <<JoinNode(Table(Empty, Empty, tbl_u, al_q), On(<<EQ(Column(al_p, col_k), Literal)>>, 0))>>,
           <<>>)

\* SELECT q.y AS a FROM u q
SelFromU ==
    Select(<<Table(Empty, Empty, tbl_u, al_q)>>, <<AliasExpr(col_a, <<Column(al_q, col_y)>>)>>, <<>>, <<>>)

\* SELECT a FROM s.t CROSS JOIN t
SelSameName ==
    Select(<<Table(Empty, <<"s">>, tbl_t, Empty)>>, <<ColumnExpr(Column(Empty, col_a))>>,
           <<JoinNode(Table(Empty, Empty, tbl_t, Empty), NoNode)>>, <<>>)

\* (SELECT a FROM t), the body of a CTE
CteBody ==
    Select(<<Table(Empty, Empty, tbl_t, Empty)>>, <<ColumnExpr(Column(Empty, col_a))>>, <<>>, <<>>)

\* (SELECT p.k FROM t p JOIN u q ON p.k = q.k), the body of a CTE
CteJoinBody ==
    Select(<<Table(Empty, Empty, tbl_t, al_p)>>, <<ColumnExpr(Column(al_p, col_k))>>,
           <<JoinNode(Table(Empty, Empty, tbl_u, al_q),
                      On(<<EQ(Column(al_p, col_k), Column(al_q, col_k))>>, 0))>>,
           <<>>)

\* SELECT <name>.<col> FROM <name>
SelFromCte(name, col) ==
    <<<<Table(Empty, Empty, name, Empty)>>, <<ColumnExpr(Column(name, col))>>, <<>>>>

\* WITH c AS (SELECT a FROM t) SELECT c.a FROM c
WithLower ==
    Select(SelFromCte(cte_c, col_a)[1], SelFromCte(cte_c, col_a)[2], <<>>, <<CTE(cte_c, CteBody)>>)

\* WITH C AS (SELECT a FROM t) SELECT C.a FROM C
WithUpper ==
    Select(SelFromCte(<<"C">>, col_a)[1], SelFromCte(<<"C">>, col_a)[2], <<>>,
           <<CTE(<<"C">>, CteBody)>>)

\* WITH c AS (SELECT p.k FROM t p JOIN u q ON p.k = q.k) SELECT c.k FROM c
WithJoin ==
    Select(SelFromCte(cte_c, col_k)[1], SelFromCte(cte_c, col_k)[2], <<>>, <<CTE(cte_c, CteJoinBody)>>)

\* WITH c AS (SELECT p.k FROM t p JOIN u q ON p.k = q.k) INSERT INTO u SELECT c.k FROM c
WithInsert ==
    Insert(Table(Empty, Empty, tbl_u, Empty), <<CTE(cte_c, CteJoinBody)>>,
           Select(SelFromCte(cte_c, col_k)[1], SelFromCte(cte_c, col_k)[2], <<>>, <<>>))

\* WITH c AS (SELECT p.k FROM t p JOIN u q ON p.k = q.k) SELECT p.k FROM c
WithLeak ==
    Select(<<Table(Empty, Empty, cte_c, Empty)>>, <<ColumnExpr(Column(al_p, col_k))>>, <<>>,
           <<CTE(cte_c, CteJoinBody)>>)

\* The statements whose text parses.
ValidStatements ==
    { SelAlias, SelBare, SelCalc, SelLiteral, SelNoFrom, SelCase, SelJoinLiteral,
      SelSameName, WithLower, WithUpper, WithJoin, WithInsert, WithLeak,
      \* INSERT INTO u SELECT p.a AS y FROM t p
      Insert(Table(Empty, Empty, tbl_u, Empty), <<>>, SelAlias),
      \* INSERT INTO t SELECT q.y AS a FROM u q
      Insert(Table(Empty, Empty, tbl_t, Empty), <<>>, SelFromU),
      \* CREATE TABLE c.s.t AS SELECT p.a AS y FROM t p
      Create(Table(cte_c, <<"s">>, tbl_t, Empty), SelAlias),
      \* CREATE TABLE u AS SELECT 1 AS n
      Create(Table(Empty, Empty, tbl_u, Empty), SelLiteral),
      \* DROP TABLE t
      OtherStatement }

\* What sqlglot.parse_one yields for the text of a file.
ParseResults == ValidStatements \cup {ParseError}

\* output_table_name: None, "t_a" or "U"
OutputNames == {Empty, <<"t", "_", "a">>, <<"U">>}

\* table_name of the batch loop: a file's name without ".sql", never empty.
FileNames == OutputNames \ {Empty}

\* What sqlglot.parse_one yields for the files of the scanned directory.
FileContents ==
    { SelCalc, SelCase, WithJoin, WithUpper, OtherStatement, ParseError,
      \* INSERT INTO u SELECT p.a AS y FROM t p
      Insert(Table(Empty, Empty, tbl_u, Empty), <<>>, SelAlias) }

-----------------------------------------------------------------------------
(* Lineage.generate_interactive_html: the elements list *)

Digit(i) ==
    CASE i = 0 -> "0" [] i = 1 -> "1" [] i = 2 -> "2" [] i = 3 -> "3" [] i = 4 -> "4"
      [] i = 5 -> "5" [] i = 6 -> "6" [] i = 7 -> "7" [] i = 8 -> "8" [] OTHER -> "9"

\* str(i) of an edge index
RECURSIVE Str(_)
Str(i) == IF i < 10 THEN <<Digit(i)>> ELSE Str(i \div 10) \o <<Digit(i % 10)>>

\* f"{self._clean_id(table)}_{self._clean_id(col)}"
ColId(table, col) == CleanId(table) \o <<Underscore>> \o CleanId(col)

FlowPrefix == <<"f", "l", "o", "w", "_">>
JoinPrefix == <<"j", "o", "i", "n", "_">>

\* The members of a set in some order (a Python set iterates in no fixed order;
\* the column ids of one table are pairwise distinct, so the order is immaterial).
RECURSIVE SetToSeq(_)
SetToSeq(S) ==
    IF S = {} THEN <<>>
    ELSE LET x == CHOOSE x \in S : TRUE IN <<x>> \o SetToSeq(S \ {x})

\* for col in self.tables[table]
RECURSIVE ColumnElements(_, _)
ColumnElements(table, cols) ==
    IF cols = <<>> THEN <<>>
    ELSE <<[id |-> ColId(table, cols[1]), label |-> cols[1],
            parent |-> CleanId(table), type |-> "column"]>>
         \o ColumnElements(table, Tail(cols))

\* for table in self.tables.keys()
RECURSIVE TableElements(_, _)
TableElements(tables, ctes) ==
    IF tables = <<>> THEN <<>>
    ELSE LET table == tables[1].key
             subtype == IF table \in ctes THEN "cte" ELSE "physical"
         IN  <<[id |-> CleanId(table), label |-> table, type |-> "table",
                subtype |-> subtype]>>
             \o ColumnElements(table, SetToSeq(tables[1].val))
             \o TableElements(Tail(tables), ctes)

\* for i, (src_tbl, src_col, tgt_tbl, tgt_col) in enumerate(edges)
RECURSIVE EdgeElements(_, _, _, _)
EdgeElements(edges, i, prefix, edgeType) ==
    IF edges = <<>> THEN <<>>
    ELSE <<[id |-> prefix \o Str(i),
            source |-> ColId(edges[1][1], edges[1][2]),
            target |-> ColId(edges[1][3], edges[1][4]),
            edgeType |-> edgeType]>>
         \o EdgeElements(Tail(edges), i + 1, prefix, edgeType)

GenerateElements(L) ==
    TableElements(L.tables, L.ctes)
    \o EdgeElements(L.flow_edges, 0, FlowPrefix, "flow")
    \o EdgeElements(L.join_edges, 0, JoinPrefix, "join")

-----------------------------------------------------------------------------
(* The page: the cytoscape graph built from the elements, and showLineage *)

IsEdge(e) == "source" \in DOMAIN e

\* cytoscape({elements}): an element whose id is taken is rejected; an edge
\* needs its source and target among the nodes. g is [nodes, edges].
RECURSIVE AddNodes(_, _)
AddNodes(els, g) ==
    IF els = <<>> THEN g
    ELSE LET e == els[1]
             g1 == IF ~IsEdge(e) /\ ~\E m \in g.nodes : m.id = e.id
                   THEN [g EXCEPT !.nodes = @ \cup {e}] ELSE g
         IN  AddNodes(Tail(els), g1)

RECURSIVE AddEdges(_, _)
AddEdges(els, g) ==
    IF els = <<>> THEN g
    ELSE LET e == els[1]
             ids == {m.id : m \in g.nodes} \cup {m.id : m \in g.edges}
             nodeIds == {m.id : m \in g.nodes}
             g1 == IF IsEdge(e) /\ e.id \notin ids
                      /\ e.source \in nodeIds /\ e.target \in nodeIds
                   THEN [g EXCEPT !.edges = @ \cup {e}] ELSE g
         IN  AddEdges(Tail(els), g1)

\* initCy
InitCy(els) == AddEdges(els, AddNodes(els, [nodes |-> {}, edges |-> {}]))

\* var cy = null
NoCy == [nodes |-> {}, edges |-> {}, absent |-> TRUE]

\* cy.elements(), as the set of their ids
ElementIds(g) == {m.id : m \in g.nodes} \cup {m.id : m \in g.edges}

NodeIds(g) == {m.id : m \in g.nodes}

\* collection.nodes()
NodesOf(g, coll) == coll \cap NodeIds(g)

\* cy.getElementById(id): a collection of at most one element
GetElementById(g, id) == {id} \cap ElementIds(g)

\* collection.children(): the nodes whose parent is in the collection
Children(g, coll) ==
    {m.id : m \in {x \in g.nodes : "parent" \in DOMAIN x /\ x.parent \in NodesOf(g, coll)}}

\* collection.parents(): the parents of the nodes of the collection
Parents(g, coll) ==
    {m.parent : m \in {x \in g.nodes : x.id \in coll /\ "parent" \in DOMAIN x
                                         /\ x.parent \in NodeIds(g)}}

\* collection.incomers(): the edges coming into the nodes, and their sources
Incomers(g, coll) ==
    LET es == {e \in g.edges : e.target \in coll}
    IN  {e.id : e \in es} \cup {e.source : e \in es}

\* collection.outgoers(): the edges going out of the nodes, and their targets
Outgoers(g, coll) ==
    LET es == {e \in g.edges : e.source \in coll}
    IN  {e.id : e \in es} \cup {e.target : e \in es}

\* collection.predecessors(): incomers, repeated until nothing new is found
RECURSIVE PredecessorsFrom(_, _, _)
PredecessorsFrom(g, frontier, found) ==
    LET inc == Incomers(g, frontier)
        new == inc \ found
    IN  IF new = {} THEN found
        ELSE PredecessorsFrom(g, NodesOf(g, new), found \cup new)

Predecessors(g, coll) == PredecessorsFrom(g, NodesOf(g, coll), {})

\* collection.successors(): outgoers, repeated until nothing new is found
RECURSIVE SuccessorsFrom(_, _, _)
SuccessorsFrom(g, frontier, found) ==
    LET out == Outgoers(g, frontier)
        new == out \ found
    IN  IF new = {} THEN found
        ELSE SuccessorsFrom(g, NodesOf(g, new), found \cup new)

Successors(g, coll) == SuccessorsFrom(g, NodesOf(g, coll), {})

\* tableName.replace(/\./g, "_").replace(/ /g, "_")
CleanName(tableName) == ReplaceChar(ReplaceChar(tableName, Dot, Underscore), Space, Underscore)

\* The upstream while loop of showLineage.
RECURSIVE UpstreamLoop(_, _, _)
UpstreamLoop(g, allUpstream, currentUp) ==
    IF currentUp = {} THEN allUpstream
    ELSE LET all1 == allUpstream \cup currentUp
             preds == Predecessors(g, currentUp)
         IN  IF preds = {} THEN all1
             ELSE LET all2 == all1 \cup preds
                      sources == NodesOf(g, preds)
                  IN  UpstreamLoop(g, all2, sources \ all2)

\* The downstream while loop of showLineage.
RECURSIVE DownstreamLoop(_, _, _)
DownstreamLoop(g, allDownstream, currentDown) ==
    IF currentDown = {} THEN allDownstream
    ELSE LET all1 == allDownstream \cup currentDown
             succs == Successors(g, currentDown)
         IN  IF succs = {} THEN all1
             ELSE LET all2 == all1 \cup succs
                      targets == NodesOf(g, succs)
                  IN  DownstreamLoop(g, all2, targets \ all2)

NoClasses == [hidden |-> {}, root_node |-> {}, upstream_node |-> {}, downstream_node |-> {}]

\* What one showLineage call computes: the collections and the classes it sets.
ShowLineageResult(g, tableName) ==
    LET cleanName == CleanName(tableName)
        targetNode == GetElementById(g, cleanName)
    IN  IF targetNode # {}
        THEN LET targetColumns == Children(g, targetNode)
                 allUpstream == UpstreamLoop(g, {}, targetColumns)
                 upstreamTables == Parents(g, NodesOf(g, allUpstream))
                 allDownstream == DownstreamLoop(g, {}, targetColumns)
                 downstreamTables == Parents(g, NodesOf(g, allDownstream))
                 finalSet == targetNode \cup allUpstream \cup upstreamTables
                             \cup allDownstream \cup downstreamTables
             IN  [found |-> TRUE, targetNode |-> targetNode,
                  targetColumns |-> targetColumns,
                  allUpstream |-> allUpstream, upstreamTables |-> upstreamTables,
                  allDownstream |-> allDownstream, downstreamTables |-> downstreamTables,
                  finalSet |-> finalSet,
                  classes |-> [hidden |-> ElementIds(g) \ finalSet,
                               root_node |-> targetNode,
                               upstream_node |-> upstreamTables \ targetNode,
                               downstream_node |-> downstreamTables \ targetNode]]
        ELSE [found |-> FALSE, targetNode |-> {}, targetColumns |-> {},
              allUpstream |-> {}, upstreamTables |-> {},
              allDownstream |-> {}, downstreamTables |-> {},
              finalSet |-> {}, classes |-> NoClasses]

-----------------------------------------------------------------------------
(* The run: the batch loop, the export, and the page *)

VARIABLES
    tool,         \* the Lineage instance of the run
    valid_only,   \* a Lineage instance given only the statements that parse
    outcomes,     \* per parse_sql call made, "ok" or "error" (how the try block ended)
    last,         \* the last parse_sql call: its arguments and the graph around it
    exported,     \* generate_interactive_html has run
    elements,     \* the elements list written into the page
    cy,           \* the page's cytoscape graph (NoCy until initCy)
    currentRoot,  \* the page's currentRoot
    shown         \* the collections and classes of the last showLineage call

vars == <<tool, valid_only, outcomes, last, exported, elements, cy, currentRoot, shown>>

NoCall == [called |-> FALSE]

NotShown == [called |-> FALSE]

\* Table identities that may be requested besides those of the graph.
OtherIdentities == {<<"c", "_", "s", "_", "t">>, <<"t", "_", "a">>, <<"z">>}

Init ==
    /\ tool = NewLineage
    /\ valid_only = NewLineage
    /\ outcomes = <<>>
    /\ last = NoCall
    /\ exported = FALSE
    /\ elements = <<>>
    /\ cy = NoCy
    /\ currentRoot = None
    /\ shown = NotShown

\* tool.parse_sql(sql_content, output_table_name=table_name)
ParseSql(parsed, output_table_name) ==
    /\ ~exported
    /\ tool' = ParseSqlResult(tool, parsed, output_table_name)
    /\ valid_only' = IF parsed = ParseError THEN valid_only
                     ELSE ParseSqlResult(valid_only, parsed, output_table_name)
    /\ outcomes' = Append(outcomes, IF parsed = ParseError THEN "error" ELSE "ok")
    /\ last' = [called |-> TRUE, parsed |-> parsed,
                output_table_name |-> output_table_name,
                before |-> tool,
                main_start |->
                    IF parsed = ParseError THEN RegisterOutput(tool, output_table_name)
                    ELSE CtePass(RegisterOutput(tool, output_table_name), parsed)]
    /\ UNCHANGED <<exported, elements, cy, currentRoot, shown>>

\* tool.generate_interactive_html(filename=output_file)
GenerateInteractiveHtml ==
    /\ ~exported
    /\ exported' = TRUE
    /\ elements' = GenerateElements(tool)
    /\ UNCHANGED <<tool, valid_only, outcomes, last, cy, currentRoot, shown>>

\* showLineage(tableName)
ShowLineage(tableName) ==
    /\ exported
    /\ currentRoot' = tableName
    /\ cy' = IF cy = NoCy THEN InitCy(elements) ELSE cy
    /\ shown' = [called |-> TRUE, tableName |-> tableName,
                 result |-> ShowLineageResult(cy', tableName)]
    /\ UNCHANGED <<tool, valid_only, outcomes, last, exported, elements>>

\* The whole run: at most MaxCalls files, then the export, then the page.
Next ==
    \/ \E parsed \in ParseResults, output_table_name \in OutputNames :
          /\ Len(outcomes) < MaxCalls
          /\ ParseSql(parsed, output_table_name)
    \/ GenerateInteractiveHtml
    \/ \E tableName \in KeySet(tool.tables) \cup OtherIdentities : ShowLineage(tableName)

Spec == Init /\ [][Next]_vars

\* Number of calls so far whose text failed to parse.
Failures == Cardinality({i \in DOMAIN outcomes : outcomes[i] = "error"})

\* The batch loop alone: at most MaxCalls files that parse and MaxFailures that do not.
NextBatch ==
    \E parsed \in FileContents, table_name \in FileNames :
        /\ IF parsed = ParseError THEN Failures < MaxFailures
           ELSE Len(outcomes) - Failures < MaxCalls
        /\ ParseSql(parsed, table_name)

SpecBatch == Init /\ [][NextBatch]_vars

\* parse_sql alone, on any statement and any declared name: at most MaxCalls calls.
NextParse ==
    \E parsed \in ParseResults, output_table_name \in OutputNames :
        /\ Len(outcomes) < MaxCalls
        /\ ParseSql(parsed, output_table_name)

SpecParse == Init /\ [][NextParse]_vars

\* The run up to the written page: at most MaxCalls parse_sql calls, then the export.
NextExport ==
    \/ \E parsed \in ParseResults, output_table_name \in OutputNames :
          /\ Len(outcomes) < MaxCalls
          /\ ParseSql(parsed, output_table_name)
    \/ GenerateInteractiveHtml

SpecExport == Init /\ [][NextExport]_vars

-----------------------------------------------------------------------------
(* Properties *)

\* The flow edges the last call appended while analysing CTE bodies.
CteFlowEdges == SubSeq(last.main_start.flow_edges,
                       Len(last.before.flow_edges) + 1, Len(last.main_start.flow_edges))

\* The flow edges the last call appended while analysing its main select body.
MainFlowEdges == SubSeq(tool.flow_edges,
                        Len(last.main_start.flow_edges) + 1, Len(tool.flow_edges))

\* The join edges the last call appended.
CallJoinEdges == SubSeq(tool.join_edges,
                        Len(last.before.join_edges) + 1, Len(tool.join_edges))

LastParsed == last.called /\ last.parsed # ParseError

\* C1: a batch with failing statements ends with the same flow edges, join
\* edges, CTE names, tables and columns contributed by the statements that
\* parse as the batch without the failing statements: a failing call neither
\* stops the batch nor removes or alters what the others contribute.
BatchKeepsValidContributions ==
    /\ tool.flow_edges = valid_only.flow_edges
    /\ tool.join_edges = valid_only.join_edges
    /\ tool.ctes = valid_only.ctes
    /\ valid_only.defined_tables \subseteq tool.defined_tables
    /\ \A i \in DOMAIN valid_only.tables :
          /\ HasKey(tool.tables, valid_only.tables[i].key)
          /\ ColumnsOf(tool.tables, valid_only.tables[i].key) = valid_only.tables[i].val

\* A batch [valid, malformed, valid2] has run to its end, both valid
\* statements having contributed edges.
BatchWithMalformedInTheMiddle ==
    /\ outcomes = <<"ok", "error", "ok">>
    /\ last.before.flow_edges # <<>>
    /\ Len(tool.flow_edges) > Len(last.before.flow_edges)

\* C2 (as stated): a call whose text fails to parse leaves the graph exactly
\* as it was, also when a declared output name came with it.
FailedParseLeavesGraphUnchanged ==
    (last.called /\ last.parsed = ParseError) => tool = last.before

\* C2 (as amended): a call whose text fails to parse adds no column, no edge
\* and no CTE name and leaves every table entry as it was; its only effect is
\* that a declared output name, lower-cased, becomes a defined table and, if
\* it was no table yet, a table entry without columns.
FailedParseOnlyRegistersOutput ==
    (last.called /\ last.parsed = ParseError) =>
        LET declared == Lower(last.output_table_name)
            given == last.output_table_name # Empty
        IN  /\ tool.flow_edges = last.before.flow_edges
            /\ tool.join_edges = last.before.join_edges
            /\ tool.ctes = last.before.ctes
            /\ tool.defined_tables =
                  last.before.defined_tables \cup (IF given THEN {declared} ELSE {})
            /\ tool.tables =
                  IF given /\ ~HasKey(last.before.tables, declared)
                  THEN Append(last.before.tables, [key |-> declared, val |-> {}])
                  ELSE last.before.tables

\* A statement that fails to parse came with a declared output name that was
\* no table of the non-empty graph before.
FailedParseWithNewDeclaredName ==
    /\ last.called
    /\ last.parsed = ParseError
    /\ last.output_table_name # Empty
    /\ last.before.flow_edges # <<>>
    /\ ~HasKey(last.before.tables, Lower(last.output_table_name))

\* The identity a table reference names: its non-empty qualifiers and name,
\* dotted and case-folded.
NamedIdentity(table_exp) ==
    Lower(Join(Dot, Truthy(<<table_exp.catalog, table_exp.db, table_exp.name>>)))

\* The target C3 states for a statement and a declared output name.
StatedTarget(parsed, declared) ==
    IF declared # Empty THEN Lower(declared)
    ELSE IF parsed.node \in {"Insert", "Create"} THEN NamedIdentity(parsed.this)
    ELSE FinalOutputStr

\* The projections of the statement's main select body.
MainExpressions(parsed) ==
    IF parsed.node \in {"Insert", "Create"} THEN parsed.expression.expressions
    ELSE IF parsed.node = "Select" THEN parsed.expressions
    ELSE <<>>

\* The output column name of a projection: its alias, else the name of a bare
\* column reference, else calc_field.
StatedColumn(expression) ==
    IF expression.alias # Empty THEN expression.alias
    ELSE IF expression.node = "Column" THEN expression.columns[1].name
    ELSE CalcFieldStr

\* C3: a declared output name is registered as a table and as a defined
\* table, and every output column and flow-edge target of the main select
\* body lies under it whatever the statement shape; without a declared name
\* the target is the named table of INSERT / CREATE AS SELECT, and
\* FINAL_OUTPUT for a bare SELECT.
TargetResolution ==
    last.called =>
        /\ last.output_table_name # Empty =>
              /\ HasKey(tool.tables, Lower(last.output_table_name))
              /\ Lower(last.output_table_name) \in tool.defined_tables
        /\ last.parsed # ParseError =>
              LET target == StatedTarget(last.parsed, last.output_table_name)
                  exprs == MainExpressions(last.parsed)
              IN  /\ \A i \in DOMAIN MainFlowEdges : MainFlowEdges[i][3] = target
                  /\ \A i \in DOMAIN exprs :
                        StatedColumn(exprs[i]) \in ColumnsOf(tool.tables, target)

\* An INSERT into one table was parsed under a different declared output name
\* and its select body produced a flow edge.
InsertUnderDeclaredName ==
    /\ LastParsed
    /\ last.parsed.node = "Insert"
    /\ last.output_table_name # Empty
    /\ Lower(last.output_table_name) # NamedIdentity(last.parsed.this)
    /\ MainFlowEdges # <<>>

\* The table C4 states for a column reference: the alias map's identity for
\* its qualifier, the raw qualifier when the map lacks it, the identity under
\* the map's first key when the reference is unqualified.
StatedSource(alias_map, ref) ==
    IF ref.table # Empty
    THEN IF HasKey(alias_map, ref.table) THEN Get(alias_map, ref.table, Empty)
         ELSE ref.table
    ELSE alias_map[1].val

\* A reference that is unqualified in a scope whose alias map is empty.
Unresolvable(alias_map, ref) == ref.table = Empty /\ alias_map = <<>>

\* One edge per resolvable column reference of one projection.
RECURSIVE StatedRefEdges(_, _, _, _)
StatedRefEdges(refs, alias_map, target, target_col) ==
    IF refs = <<>> THEN <<>>
    ELSE (IF Unresolvable(alias_map, refs[1]) THEN <<>>
          ELSE <<<<StatedSource(alias_map, refs[1]), refs[1].name, target, target_col>>>>)
         \o StatedRefEdges(Tail(refs), alias_map, target, target_col)

\* The flow edges of the projections of one select, in order.
RECURSIVE StatedFlow(_, _, _)
StatedFlow(expressions, alias_map, target) ==
    IF expressions = <<>> THEN <<>>
    ELSE StatedRefEdges(expressions[1].columns, alias_map, target,
                        StatedColumn(expressions[1]))
         \o StatedFlow(Tail(expressions), alias_map, target)

\* The flow edges of the bodies of a list of CTEs, in order.
RECURSIVE StatedCteFlow(_)
StatedCteFlow(ctes) ==
    IF ctes = <<>> THEN <<>>
    ELSE StatedFlow(ctes[1].this.expressions, AliasMapOf(ctes[1].this), ctes[1].alias)
         \o StatedCteFlow(Tail(ctes))

\* Number of column references nested in a list of projections.
RECURSIVE RefCount(_)
RefCount(expressions) ==
    IF expressions = <<>> THEN 0
    ELSE Len(expressions[1].columns) + RefCount(Tail(expressions))

RECURSIVE CteRefCount(_)
CteRefCount(ctes) ==
    IF ctes = <<>> THEN 0
    ELSE RefCount(ctes[1].this.expressions) + CteRefCount(Tail(ctes))

\* The alias map of the main select body of a statement.
MainAliasMap(parsed) ==
    IF SelectPart(parsed) = NoNode THEN <<>> ELSE AliasMapOf(SelectPart(parsed))

\* C4 (as amended): every projection registers its target column under the
\* target table, and one flow edge is appended per nested column reference,
\* sourced by the alias map's identity for the qualifier, by the raw qualifier
\* when the map lacks it, and by the identity under the map's first key when
\* the reference is unqualified; an unqualified reference in a scope whose
\* alias map is empty adds no edge.
ColumnFlowPerResolvableReference ==
    LastParsed =>
        LET target == StatedTarget(last.parsed, last.output_table_name)
            exprs == MainExpressions(last.parsed)
            ctes == FindAllCTE(last.parsed)
        IN  /\ MainFlowEdges = StatedFlow(exprs, MainAliasMap(last.parsed), target)
            /\ CteFlowEdges = StatedCteFlow(ctes)
            /\ \A i \in DOMAIN exprs :
                  StatedColumn(exprs[i]) \in ColumnsOf(tool.tables, target)
            /\ \A i \in DOMAIN ctes : \A j \in DOMAIN ctes[i].this.expressions :
                  StatedColumn(ctes[i].this.expressions[j])
                      \in ColumnsOf(tool.tables, ctes[i].alias)

\* C4 (as stated): the above, with exactly one flow edge for every nested
\* column reference.
ColumnFlowPerReference ==
    /\ ColumnFlowPerResolvableReference
    /\ LastParsed =>
          /\ Len(MainFlowEdges) = RefCount(MainExpressions(last.parsed))
          /\ Len(CteFlowEdges) = CteRefCount(FindAllCTE(last.parsed))

\* A projection with two nested column references has added two flow edges
\* to one target column.
TwoEdgesToOneTargetColumn ==
    /\ LastParsed
    /\ \E i, j \in DOMAIN MainFlowEdges :
          /\ i # j
          /\ MainFlowEdges[i][3] = MainFlowEdges[j][3]
          /\ MainFlowEdges[i][4] = MainFlowEdges[j][4]
          /\ MainFlowEdges[i][1] # MainFlowEdges[j][1]

\* The join edge of one equality, when both operands are column references.
StatedEqEdges(alias_map, eq) ==
    IF eq.left.node = "Column" /\ eq.right.node = "Column"
    THEN <<<<StatedSource(alias_map, eq.left), eq.left.name,
             StatedSource(alias_map, eq.right), eq.right.name>>>>
    ELSE <<>>

RECURSIVE StatedOnEdges(_, _)
StatedOnEdges(alias_map, eqs) ==
    IF eqs = <<>> THEN <<>>
    ELSE StatedEqEdges(alias_map, eqs[1]) \o StatedOnEdges(alias_map, Tail(eqs))

\* The join edges of the join clauses of one select body, one per equality.
RECURSIVE StatedJoinEdges(_, _)
StatedJoinEdges(alias_map, joins) ==
    IF joins = <<>> THEN <<>>
    ELSE (IF joins[1].on = NoNode THEN <<>>
          ELSE StatedOnEdges(alias_map, joins[1].on.eqs))
         \o StatedJoinEdges(alias_map, Tail(joins))

RECURSIVE StatedCteJoinEdges(_)
StatedCteJoinEdges(ctes) ==
    IF ctes = <<>> THEN <<>>
    ELSE StatedJoinEdges(AliasMapOf(ctes[1].this), ctes[1].this.joins)
         \o StatedCteJoinEdges(Tail(ctes))

\* The join clauses of the main select body itself.
MainJoins(parsed) ==
    IF SelectPart(parsed) = NoNode THEN <<>> ELSE SelectPart(parsed).joins

\* C5: a call appends exactly one join edge per equality between two column
\* references in an ON condition, whether the join is in the main select body
\* or in a CTE body, and none for an equality with a non-column operand.
OneJoinEdgePerEquality ==
    LastParsed =>
        CallJoinEdges = StatedCteJoinEdges(FindAllCTE(last.parsed))
                        \o StatedJoinEdges(MainAliasMap(last.parsed), MainJoins(last.parsed))

\* The column references of a list of projections.
RECURSIVE RefsOf(_)
RefsOf(expressions) ==
    IF expressions = <<>> THEN <<>>
    ELSE expressions[1].columns \o RefsOf(Tail(expressions))

\* C6: every CTE name is a table identity and a member of the CTE set, the
\* CTE bodies' flow edges precede those of the main body, and a main-body
\* reference to a CTE is sourced from the identity the CTE was registered under.
CtePropagation ==
    LastParsed =>
        LET ctes == FindAllCTE(last.parsed)
            refs == RefsOf(MainExpressions(last.parsed))
        IN  \A i \in DOMAIN ctes :
                /\ ctes[i].alias \in tool.ctes
                /\ HasKey(tool.tables, ctes[i].alias)
                /\ \A j \in DOMAIN CteFlowEdges :
                      CteFlowEdges[j][3] \in {ctes[m].alias : m \in DOMAIN ctes}
                /\ \A j \in DOMAIN refs :
                      refs[j].table = ctes[i].alias =>
                          \E m \in DOMAIN MainFlowEdges :
                              /\ MainFlowEdges[m][1] = ctes[i].alias
                              /\ MainFlowEdges[m][2] = refs[j].name

\* Names for the normalization examples.
CatalogMixed == <<"C", "a", "t", "a", "l", "o", "g">>
SchemaMixed == <<"S", "c", "h", "e", "m", "a">>
TableMixed == <<"T", "a", "b", "l", "e">>
CatalogUpper == <<"C", "A", "T", "A", "L", "O", "G">>
SchemaUpper == <<"S", "C", "H", "E", "M", "A">>
TableUpper == <<"T", "A", "B", "L", "E">>
NormalizedExample ==
    <<"c", "a", "t", "a", "l", "o", "g", ".", "s", "c", "h", "e", "m", "a", ".",
      "t", "a", "b", "l", "e">>

\* C7: the three spellings of Catalog.Schema.Table normalize to one
\* case-folded dotted identity, a normalized reference normalizes to itself,
\* and the table catalog never holds two keys that differ only in case.
NormalizedKeysUnique ==
    /\ GetFullTableName(Table(CatalogMixed, SchemaMixed, TableMixed, Empty)) = NormalizedExample
    /\ GetFullTableName(Table(CatalogUpper, SchemaUpper, TableUpper, Empty)) = NormalizedExample
    /\ GetFullTableName(Table(Lower(CatalogUpper), Lower(SchemaUpper), Lower(TableUpper),
                              Empty)) = NormalizedExample
    /\ GetFullTableName(Table(Empty, Empty, Lower(TableUpper), al_p)) = Lower(TableUpper)
    /\ \A i, j \in DOMAIN tool.tables :
          Lower(tool.tables[i].key) = Lower(tool.tables[j].key) => i = j

\* The id of the column node of a column entry.
ColumnNode(table, col) == ColId(table, col)

\* C8: join edges are adjacency in both directions: for every join edge, one
\* end is in the upstream (downstream) closure of the root exactly when the
\* other end is.
JoinEdgesBidirectional ==
    (shown.called /\ shown.result.found) =>
        \A i \in DOMAIN tool.join_edges :
            LET e == tool.join_edges[i]
                left == ColumnNode(e[1], e[2])
                right == ColumnNode(e[3], e[4])
            IN  /\ left \in shown.result.allUpstream <=> right \in shown.result.allUpstream
                /\ left \in shown.result.allDownstream
                       <=> right \in shown.result.allDownstream

\* The nodes reachable from a set of nodes against the edges, by single steps.
RECURSIVE BackwardReach(_, _)
BackwardReach(g, S) ==
    LET more == S \cup {e.source : e \in {x \in g.edges : x.target \in S}}
    IN  IF more = S THEN S ELSE BackwardReach(g, more)

\* The nodes reachable from a set of nodes along the edges, by single steps.
RECURSIVE ForwardReach(_, _)
ForwardReach(g, S) ==
    LET more == S \cup {e.target : e \in {x \in g.edges : x.source \in S}}
    IN  IF more = S THEN S ELSE ForwardReach(g, more)

\* C9: the upstream closure of a root table holds the root's columns and every
\* direct predecessor of a column in it, the downstream closure likewise for
\* successors, on cyclic graphs too; running the traversal again from the
\* columns of its result finds no new column; each closure is what is
\* reachable from the root's columns alone.
ClosuresAreFixedPoints ==
    (shown.called /\ shown.result.found) =>
        LET r == shown.result
            up == NodesOf(cy, r.allUpstream)
            down == NodesOf(cy, r.allDownstream)
        IN  /\ r.targetColumns \subseteq up
            /\ r.targetColumns \subseteq down
            /\ HasKey(tool.tables, shown.tableName) =>
                  \A col \in ColumnsOf(tool.tables, shown.tableName) :
                      ColumnNode(shown.tableName, col) \in up \cap down
            /\ \A e \in cy.edges :
                  /\ e.target \in up => e.source \in up
                  /\ e.source \in down => e.target \in down
            /\ NodesOf(cy, UpstreamLoop(cy, {}, up)) = up
            /\ NodesOf(cy, DownstreamLoop(cy, {}, down)) = down
            /\ up = BackwardReach(cy, r.targetColumns)
            /\ down = ForwardReach(cy, r.targetColumns)

\* C10: a request for a table identity that is not in the graph yields two
\* empty closures and an empty scope, and sets no class.
AbsentTableYieldsEmptyClosures ==
    (shown.called /\ ~HasKey(tool.tables, shown.tableName)) =>
        /\ shown.result.allUpstream = {}
        /\ shown.result.allDownstream = {}
        /\ shown.result.finalSet = {}
        /\ shown.result.classes = NoClasses

\* The alias-or-bare-name of each table reference of a list.
RECURSIVE AliasesOf(_)
AliasesOf(tabs) ==
    IF tabs = <<>> THEN {}
    ELSE {IF tabs[1].alias # Empty THEN tabs[1].alias ELSE tabs[1].name}
         \cup AliasesOf(Tail(tabs))

\* The aliases and table names a select body introduces itself: those of its
\* FROM clause and of its joins.
ScopeAliases(sel) == AliasesOf(sel.from \o JoinTables(sel.joins))

\* The alias map holding only the table references of the select's own scope.
ScopeAliasMap(sel) ==
    MapAliases(sel.from \o JoinTables(sel.joins),
               [alias_map |-> <<>>, tables |-> <<>>]).alias_map

\* C11: the alias map used for the main select body of a call holds only the
\* aliases and table names the main body introduces itself, its first key
\* (the fallback) is one of them, and the main body's column references are
\* resolved as that scope alone resolves them: nothing introduced only inside
\* a CTE body takes part.
AliasMapScopedToMainBody ==
    (LastParsed /\ SelectPart(last.parsed) # NoNode) =>
        LET sel == SelectPart(last.parsed)
            alias_map == MainAliasMap(last.parsed)
        IN  /\ KeySet(alias_map) \subseteq ScopeAliases(sel)
            /\ alias_map # <<>> => alias_map[1].key \in ScopeAliases(sel)
            /\ MainFlowEdges =
                   StatedFlow(sel.expressions, ScopeAliasMap(sel),
                              StatedTarget(last.parsed, last.output_table_name))

\* (table, column) is a registered column entry of the graph.
IsColumnEntry(table, col) ==
    HasKey(tool.tables, table) /\ col \in ColumnsOf(tool.tables, table)

\* Both endpoints of an edge tuple are registered column entries.
EndpointsRegistered(e) == IsColumnEntry(e[1], e[2]) /\ IsColumnEntry(e[3], e[4])

\* The ids of the column nodes among the exported elements.
ColumnNodeIds ==
    {elements[i].id : i \in {j \in DOMAIN elements :
                                ~IsEdge(elements[j]) /\ elements[j].type = "column"}}

\* C12: after any sequence of parse_sql calls, failing ones included, every
\* endpoint of every flow edge and join edge is a registered column entry,
\* every defined table is a key of the table catalog, and every edge element
\* the exporter emits has the ids of emitted column nodes as source and target.
EdgeEndpointsAreColumnEntries ==
    /\ \A i \in DOMAIN tool.flow_edges : EndpointsRegistered(tool.flow_edges[i])
    /\ \A i \in DOMAIN tool.join_edges : EndpointsRegistered(tool.join_edges[i])
    /\ tool.defined_tables \subseteq KeySet(tool.tables)
    /\ exported =>
          \A i \in DOMAIN elements :
              IsEdge(elements[i]) =>
                  /\ elements[i].source \in ColumnNodeIds
                  /\ elements[i].target \in ColumnNodeIds

\* A graph with flow edges, join edges and a defined table, built by a run in
\* which a call failed, has been exported.
ExportedAfterFailedAndValidCalls ==
    /\ exported
    /\ \E i \in DOMAIN outcomes : outcomes[i] = "error"
    /\ tool.flow_edges # <<>>
    /\ tool.join_edges # <<>>
    /\ tool.defined_tables # {}
    /\ \E i \in DOMAIN elements : IsEdge(elements[i]) /\ elements[i].edgeType = "join"

\* The positions of the table nodes and column nodes among the exported elements.
NodePositions == {i \in DOMAIN elements : ~IsEdge(elements[i])}

\* C13: the exporter gives every node its own id: no two table nodes, no two
\* column nodes and no table node and column node share an id, so the source
\* and the target of every edge element is the id of exactly one node.
NodeIdsUnique ==
    exported =>
        /\ \A i, j \in NodePositions : elements[i].id = elements[j].id => i = j
        /\ \A i \in DOMAIN elements :
              IsEdge(elements[i]) =>
                  /\ Cardinality({j \in NodePositions :
                                     elements[j].id = elements[i].source}) = 1
                  /\ Cardinality({j \in NodePositions :
                                     elements[j].id = elements[i].target}) = 1

====
